---- MODULE Spec2Model ----
(***************************************************************************)
(* Model of lib/bootstrap.js: the run-once bootstrap entry point.          *)
(*                                                                         *)
(* module.exports = _.once(function(options) {...}) builds the config from *)
(* defaults, options, files and env, attaches the id, summons lando, and   *)
(* returns the promise chain                                               *)
(*   emit('pre-bootstrap') .then .then .map(load) .then(emit('post-        *)
(*   bootstrap')) .then(return lando).                                     *)
(*                                                                         *)
(* Configs are mappings: functions from the set of keys they define.       *)
(* The collaborators required by bootstrap.js (./config, ./lando and the   *)
(* events / plugins objects of the instance) are modelled by contract.     *)
(***************************************************************************)
EXTENDS Integers, Sequences, FiniteSets, TLC

\* ---------------------------------------------------------------- bounds
MaxCalls == 2
MaxDur == 2
MaxPlugins == 2

VARIABLES
  n,          \* lodash before(2, func): the countdown of the _.once wrapper
  result,     \* lodash before(): the memoised return value of func
  calls,      \* every call of module.exports so far: when made, what it got
  pc,         \* position of the one execution of the wrapped function
  options,    \* the argument of the invocation of the wrapped function
  config,     \* the local `config`, later lando.config (same object)
  srcs,       \* what defaults(), options, loadFiles(), loadEnvs() supplied
  lando,      \* the instance: config handed to the factory, handlers
  promise,    \* the promise returned by the wrapped function
  thrown,     \* the error thrown synchronously out of the wrapped function
  em,         \* the emit in progress on lando.events
  hlog,       \* the shared log the lifecycle handlers append to
  plist,      \* the array the .map iterates (line 134)
  largs,      \* the arguments of each lando.plugins.load call (line 139)
  loads,      \* state of each lando.plugins.load call made by .map
  trace       \* history of the steps executed, in order

vars == <<n, result, calls, pc, options, config, srcs, lando, promise,
          thrown, em, hlog, plist, largs, loads, trace>>

\* ------------------------------------------------------------ value model
Empty == [k \in {} |-> 0]

Has(c, k) == k \in DOMAIN c

\* helpers.merge(old, fresh): the later argument wins on key collision
merge(old, fresh) ==
  [k \in DOMAIN old \cup DOMAIN fresh |-> IF k \in DOMAIN fresh THEN fresh[k] ELSE old[k]]

\* c with key k set to v (an assignment c.k = v)
Assign(c, k, v) == [x \in DOMAIN c \cup {k} |-> IF x = k THEN v ELSE c[x]]

\* _.isEmpty(config.configSources)
isEmptySources(c) == IF Has(c, "configSources") THEN Len(c["configSources"]) = 0 ELSE TRUE

\* object-hash: deterministic, distinct seeds give distinct digests
hasher(seed) ==
  CASE seed = "/r1" -> "sha1:r1"
    [] seed = "/r2" -> "sha1:r2"
    [] OTHER -> "sha1:other"

Err(type, event, who) == [type |-> type, event |-> event, who |-> who]
NoErr == Err("none", "none", "none")

PluginNames == <<"P1", "P2", "P3", "P4">>
Ascending == [i \in 1..MaxPlugins |-> PluginNames[i]]

\* ---------------------------------------------------------------- inputs
\* helpers.defaults(): the built-in baseline
DefaultsSet ==
  { merge([userConfRoot |-> "/r1"], a) : a \in {Empty, [a |-> 1]} }
  \cup { [a |-> 1] }

\* the options a caller may pass
OptionsSet ==
  { merge(merge(merge(merge(a, s), e), p), [pluginDirs |-> <<"dA", "dB">>]) :
      a \in {Empty, [a |-> 2]},
      s \in {Empty, [configSources |-> <<"f1">>]},
      e \in {Empty, [envPrefix |-> "LANDO"]},
      p \in {Empty, [plugins |-> Ascending]} }

\* what the config files may contain
FilesSet ==
  {Empty, [a |-> 3], [a |-> 3, envPrefix |-> "FILE"],
   [configSources |-> <<"f2">>, id |-> "file-id"]}

\* what the prefixed environment variables may contain
EnvSet ==
  {Empty, [a |-> 4],
   [configSources |-> <<"f3">>, userConfRoot |-> "/r2", id |-> "env-id"]}

PreHandlers == <<"H1", "H2", "H3">>
PostHandlers == <<"G1">>

SyncPcs == {"merge", "files", "envs", "id", "summon", "emitPre"}
PendingPcs == {"pre", "plugins", "post"}

\* the phase of the execution a call of module.exports falls in
Phase(p) ==
  IF p \in SyncPcs THEN "sync"
  ELSE IF p \in PendingPcs THEN "pending"
  ELSE "settled"

\* an entry of the history: a step that ran, and the error it raised if any
Ev(e, w) == [ev |-> e, who |-> w, err |-> NoErr]
Fl(e, w, x) == [ev |-> e, who |-> w, err |-> x]
NoEmit == [event |-> "none", payload |-> "none", idx |-> 0, left |-> 0, slow |-> {}]

Init ==
  /\ n = 2
  /\ result = "undefined"
  /\ calls = <<>>
  /\ pc = "idle"
  /\ options = Empty
  /\ config = Empty
  /\ srcs = [defaults |-> Empty, options |-> Empty, files |-> Empty, env |-> Empty]
  /\ lando = [built |-> FALSE, config |-> Empty, pre |-> <<>>, post |-> <<>>, caps |-> {}]
  /\ promise = [state |-> "none", error |-> NoErr]
  /\ thrown = NoErr
  /\ em = NoEmit
  /\ hlog = <<>>
  /\ plist = <<>>
  /\ largs = <<>>
  /\ loads = <<>>
  /\ trace = <<>>

\* ------------------------------------------------- lodash _.once wrapper
\* before(2, func): `if (--n > 0) result = func.apply(...)`; `return result`.
\* The first call enters the wrapped function; every other call, whenever it is
\* made, gets whatever `result` holds at that moment.
Call(o) ==
  /\ Len(calls) < MaxCalls
  /\ n' = n - 1
  /\ IF n - 1 > 0
       THEN /\ pc' = "merge"
            /\ options' = o
            /\ calls' = Append(calls, [at |-> "first", ret |-> "running"])
       ELSE /\ calls' = Append(calls, [at |-> Phase(pc), ret |-> result])
            /\ UNCHANGED <<pc, options>>
  /\ UNCHANGED <<result, config, srcs, lando, promise, thrown, em, hlog,
                 plist, largs, loads, trace>>

\* the options of a call: anything for the first call, the same options or
\* other ones for a repeated call
CallOptions ==
  IF n = 2 THEN OptionsSet
  ELSE {options, CHOOSE o \in OptionsSet : o # options}

\* an exception leaves the wrapped function: `result` is never assigned
Throw(e) ==
  /\ pc' = "failed"
  /\ thrown' = e
  /\ calls' = [calls EXCEPT ![1].ret = "throw"]

\* ---------------------------------------- synchronous part, lines 81 - 101
\* line 81: helpers.merge(helpers.defaults(), options)
MergeOptions(d, o) == merge(d, o)

Merge81 ==
  /\ pc = "merge"
  /\ \E d \in DefaultsSet :
       /\ config' = MergeOptions(d, options)
       /\ srcs' = [srcs EXCEPT !.defaults = d, !.options = options]
  /\ pc' = "files"
  /\ trace' = Append(trace, Ev("merge", "config"))
  /\ UNCHANGED <<n, result, calls, options, lando, promise, thrown, em, hlog,
                 plist, largs, loads>>

MergeFilesSwapped(c, f) == merge(f, c)

\* line 85: helpers.merge(config, helpers.loadFiles(...))
MergeFiles(c, f) == merge(c, f)

\* line 90: helpers.merge(config, helpers.loadEnvs(...))
MergeEnvs(c, e) == merge(c, e)

LoadFilesThrowIgnored ==
  /\ pc = "files"
  /\ ~isEmptySources(config)
  /\ pc' = "envs"
  /\ trace' = Append(trace, Fl("loadFiles", "throw",
                               Err("ConfigLoadError", "none", config["configSources"][1])))
  /\ UNCHANGED <<n, result, calls, options, config, srcs, lando, promise,
                 thrown, em, hlog, plist, largs, loads>>

\* helpers.loadFiles throws on a missing or unparsable file
LoadFilesThrow ==
  /\ pc = "files"
  /\ ~isEmptySources(config)
  /\ LET e == Err("ConfigLoadError", "none", config["configSources"][1])
     IN /\ Throw(e)
        /\ trace' = Append(trace, Fl("loadFiles", "throw", e))
  /\ UNCHANGED <<n, result, options, config, srcs, lando, promise, em, hlog,
                 plist, largs, loads>>

LoadFiles ==
  /\ pc = "files"
  /\ IF isEmptySources(config)
       THEN UNCHANGED <<config, srcs, trace>>
       ELSE \E f \in FilesSet :
              /\ config' = MergeFiles(config, f)
              /\ srcs' = [srcs EXCEPT !.files = f]
              /\ trace' = Append(trace, Ev("loadFiles", "ok"))
  /\ pc' = "envs"
  /\ UNCHANGED <<n, result, calls, options, lando, promise, thrown, em, hlog,
                 plist, largs, loads>>

HasEnvPrefixBeforeFiles(c) == Has(merge(srcs.defaults, srcs.options), "envPrefix")

\* line 89: _.has(config, 'envPrefix'), on the config as merged so far
HasEnvPrefix(c) == Has(c, "envPrefix")

LoadEnvsThrow ==
  /\ pc = "envs"
  /\ HasEnvPrefix(config)
  /\ LET e == Err("EnvParseError", "none", config["envPrefix"])
     IN /\ Throw(e)
        /\ trace' = Append(trace, Fl("loadEnvs", "throw", e))
  /\ UNCHANGED <<n, result, options, config, srcs, lando, promise, em, hlog,
                 plist, largs, loads>>

LoadEnvs ==
  /\ pc = "envs"
  /\ IF HasEnvPrefix(config)
       THEN \E e \in EnvSet :
              /\ config' = MergeEnvs(config, e)
              /\ srcs' = [srcs EXCEPT !.env = e]
              /\ trace' = Append(trace, Ev("loadEnvs", "ok"))
       ELSE UNCHANGED <<config, srcs, trace>>
  /\ pc' = "id"
  /\ UNCHANGED <<n, result, calls, options, lando, promise, thrown, em, hlog,
                 plist, largs, loads>>

\* line 94: config.id = hasher(config.userConfRoot); object-hash throws on an
\* undefined argument
IdValueKeepSupplied(c) == IF Has(c, "id") THEN c["id"] ELSE hasher(c["userConfRoot"])

\* line 94: the value assigned to config.id
IdValue(c) == hasher(c["userConfRoot"])

AttachId ==
  /\ pc = "id"
  /\ IF Has(config, "userConfRoot")
       THEN /\ config' = Assign(config, "id", IdValue(config))
            /\ pc' = "summon"
            /\ trace' = Append(trace, Ev("id", "ok"))
            /\ UNCHANGED <<calls, thrown>>
       ELSE /\ Throw(Err("Error", "none", "Object argument required."))
            /\ trace' = Append(trace, Fl("id", "throw",
                                         Err("Error", "none", "Object argument required.")))
            /\ UNCHANGED config
  /\ UNCHANGED <<n, result, options, srcs, lando, promise, em, hlog, plist, largs,
                 loads>>

\* line 97 - 101: require('./lando')(config), then the two log lines
Summon ==
  /\ pc = "summon"
  /\ lando' = [built |-> TRUE, config |-> config, pre |-> PreHandlers,
               post |-> PostHandlers, caps |-> {}]
  /\ pc' = "emitPre"
  /\ trace' = Append(trace, Ev("summon", "ok"))
  /\ UNCHANGED <<n, result, calls, options, config, srcs, promise, thrown, em,
                 hlog, plist, largs, loads>>

SummonThrow ==
  /\ pc = "summon"
  /\ LET e == Err("InstanceBuildError", "none", "lando")
     IN /\ Throw(e)
        /\ trace' = Append(trace, Fl("summon", "throw", e))
  /\ UNCHANGED <<n, result, options, config, srcs, lando, promise, em, hlog,
                 plist, largs, loads>>

\* ---------------------------------------------------- lando.events.emit
\* the handlers registered on the instance for an event, in registration order
Handlers(ev) == IF ev = "pre-bootstrap" THEN lando.pre ELSE lando.post

\* emit runs the handlers one after the other, in registration order; each
\* takes some time (left) before it completes
\* (slow keeps which pre-bootstrap handlers needed more than one tick)
Slow(ev, h, d) == IF ev = "pre-bootstrap" /\ d > 1 THEN {h} ELSE {}

StartEmit(ev, pl, hs, d) ==
  IF Len(hs) = 0 THEN [event |-> ev, payload |-> pl, idx |-> 1, left |-> 0, slow |-> {}]
  ELSE [event |-> ev, payload |-> pl, idx |-> 1, left |-> d, slow |-> Slow(ev, hs[1], d)]

EmitResolved(ev) == em.event = ev /\ em.idx > Len(Handlers(ev))

HandlerRunning == em.event # "none" /\ em.idx <= Len(Handlers(em.event))

HandlerTick ==
  /\ HandlerRunning
  /\ em.left > 1
  /\ em' = [em EXCEPT !.left = em.left - 1]
  /\ UNCHANGED <<n, result, calls, pc, options, config, srcs, lando, promise,
                 thrown, hlog, plist, largs, loads, trace>>

\* what a handler may do to the plugins entry of a config it is handed
Edits(h) == IF h = "H3" THEN {"keep", "reverse", "drop", "add"} ELSE {"keep"}

Reverse(q) == [i \in 1..Len(q) |-> q[Len(q) + 1 - i]]

Elems(q) == {q[i] : i \in 1..Len(q)}

FirstUnused(q) ==
  PluginNames[CHOOSE k \in 1..Len(PluginNames) :
                /\ PluginNames[k] \notin Elems(q)
                /\ \A j \in 1..(k - 1) : PluginNames[j] \in Elems(q)]

EditPlugins(c, e) ==
  LET q == IF Has(c, "plugins") THEN c["plugins"] ELSE <<>> IN
  CASE e = "reverse" /\ Has(c, "plugins") -> Assign(c, "plugins", Reverse(q))
    [] e = "drop" /\ Len(q) > 0 -> Assign(c, "plugins", SubSeq(q, 1, Len(q) - 1))
    [] e = "add" /\ Len(q) < MaxPlugins -> Assign(c, "plugins", Append(q, FirstUnused(q)))
    [] OTHER -> c

\* a handler completes: it has logged its name and left its change on the
\* payload it was handed (a key on the config, a capability on the instance)
HandlerDone ==
  /\ HandlerRunning
  /\ em.left = 1
  /\ LET h == Handlers(em.event)[em.idx] IN
     /\ hlog' = Append(hlog, h)
     /\ IF em.payload = "config"
          THEN /\ \E e \in Edits(h) : config' = Assign(EditPlugins(config, e), h, "set")
               /\ UNCHANGED lando
          ELSE /\ lando' = [lando EXCEPT !.caps = @ \cup {h}]
               /\ UNCHANGED config
  /\ \E d \in 1..MaxDur :
       em' = IF em.idx < Len(Handlers(em.event))
               THEN [em EXCEPT !.idx = em.idx + 1, !.left = d,
                               !.slow = @ \cup Slow(em.event, Handlers(em.event)[em.idx + 1], d)]
               ELSE [em EXCEPT !.idx = em.idx + 1, !.left = 0]
  /\ UNCHANGED <<n, result, calls, pc, options, srcs, promise,
                 thrown, plist, largs, loads, trace>>

\* a rejection travels down the chain past every .then and .map to the promise
\* the caller holds
RejectIgnored(e) == UNCHANGED <<pc, promise>>

Reject(e) ==
  /\ pc' = "failed"
  /\ promise' = [state |-> "rejected", error |-> e]

HandlerFail ==
  /\ HandlerRunning
  /\ em.left = 1
  /\ LET e == Err("EventHandlerError", em.event, Handlers(em.event)[em.idx])
     IN /\ Reject(e)
        /\ trace' = Append(trace, Fl("emit:fail", em.event, e))
  /\ em' = NoEmit
  /\ UNCHANGED <<n, result, calls, options, config, srcs, lando, thrown, hlog,
                 plist, largs, loads>>

\* ------------------------------------------- promise chain, lines 125 - 166
\* line 125: the emit starts, the chain is built and the wrapped function
\* returns it to the wrapper, which stores it in `result`
PreEventMistyped == "post-bootstrap"

\* line 125: the name of the first lifecycle event
PreEvent == "pre-bootstrap"

PostEventMistyped == "pre-bootstrap"

\* line 159: the name of the second lifecycle event
PostEvent == "post-bootstrap"

PrePayloadInstance == "lando"

\* line 125: the payload of the first event is lando.config
PrePayload == "config"

\* line 159: the payload of the second event is lando
PostPayload == "lando"

EmitPre ==
  /\ pc = "emitPre"
  /\ \E d \in 1..MaxDur : em' = StartEmit(PreEvent, PrePayload, Handlers(PreEvent), d)
  /\ promise' = [state |-> "pending", error |-> NoErr]
  /\ result' = "promise"
  /\ calls' = [calls EXCEPT ![1].ret = "promise"]
  /\ pc' = "pre"
  /\ trace' = Append(trace, Ev("emit", PreEvent))
  /\ UNCHANGED <<n, options, config, srcs, lando, thrown, hlog, plist, largs, loads>>

\* line 134: lando.config.plugins || []
PluginsOf(c) == IF Has(c, "plugins") THEN c["plugins"] ELSE <<>>

PluginsAsSummoned(c) == PluginsOf(lando.config)

\* line 134: the list is read from lando.config when this .then runs
ReadPlugins(c) == PluginsOf(c)

\* line 139: lando.plugins.load(plugin, lando.config.pluginDirs, lando)
LoadArgs(p, c) == [plugin |-> p, dirs |-> c["pluginDirs"], inst |-> "lando"]

\* Bluebird .map: the mapper is called for every element of the array, in
\* order, without waiting for the promise the previous call returned
MapStarts(ps) == [i \in 1..Len(ps) |-> Ev("load", ps[i])]

\* lines 128 - 140
ThenPlugins ==
  /\ pc = "pre"
  /\ EmitResolved(PreEvent)
  /\ plist' = ReadPlugins(config)
  /\ largs' = [i \in 1..Len(plist') |-> LoadArgs(plist'[i], config)]
  /\ loads' = [i \in 1..Len(plist') |-> "inflight"]
  /\ trace' = trace \o <<Ev("emit:done", PreEvent)>> \o MapStarts(plist')
  /\ em' = NoEmit
  /\ pc' = "plugins"
  /\ UNCHANGED <<n, result, calls, options, config, srcs, lando, promise,
                 thrown, hlog>>

\* the handlers a plugin registers with lando.events.on when it is loaded
OnPre(p) ==
  CASE p = "P1" -> "P1:pre" [] p = "P2" -> "P2:pre" [] p = "P3" -> "P3:pre"
    [] OTHER -> "P4:pre"

OnPost(p) ==
  CASE p = "P1" -> "P1:post" [] p = "P2" -> "P2:post" [] p = "P3" -> "P3:post"
    [] OTHER -> "P4:post"

\* a lando.plugins.load call completes: the plugin has registered its handlers
LoadDone(i) ==
  /\ loads[i] = "inflight"
  /\ loads' = [loads EXCEPT ![i] = "done"]
  /\ lando' = [lando EXCEPT !.pre = Append(@, OnPre(plist[i])),
                            !.post = Append(@, OnPost(plist[i]))]
  /\ trace' = Append(trace, Ev("load:done", plist[i]))
  /\ UNCHANGED <<n, result, calls, pc, options, config, srcs, promise,
                 thrown, em, hlog, plist, largs>>

\* a lando.plugins.load call fails: the first failure rejects the chain, the
\* other loads already started by .map keep running
LoadFail(i) ==
  /\ loads[i] = "inflight"
  /\ loads' = [loads EXCEPT ![i] = "failed"]
  /\ trace' = Append(trace, Fl("load:fail", plist[i], Err("PluginInitError", "none", plist[i])))
  /\ IF pc = "plugins"
       THEN Reject(Err("PluginInitError", "none", plist[i]))
       ELSE UNCHANGED <<pc, promise>>
  /\ UNCHANGED <<n, result, calls, options, config, srcs, lando, thrown, em,
                 hlog, plist, largs>>

SomeLoaded == \E i \in 1..Len(loads) : loads[i] = "done"

AllLoadedNonEmpty == loads # <<>> /\ \A i \in 1..Len(loads) : loads[i] = "done"

\* .map(...).then(...): the next .then runs once every mapped promise is fulfilled
AllLoaded == \A i \in 1..Len(loads) : loads[i] = "done"

\* lines 158 - 160
ThenPost ==
  /\ pc = "plugins"
  /\ AllLoaded
  /\ \E d \in 1..MaxDur : em' = StartEmit(PostEvent, PostPayload, Handlers(PostEvent), d)
  /\ pc' = "post"
  /\ trace' = Append(trace, Ev("emit", PostEvent))
  /\ UNCHANGED <<n, result, calls, options, config, srcs, lando, promise,
                 thrown, hlog, plist, largs, loads>>

\* lines 163 - 166
ThenReturn ==
  /\ pc = "post"
  /\ EmitResolved(PostEvent)
  /\ promise' = [state |-> "fulfilled", error |-> NoErr]
  /\ pc' = "ready"
  /\ trace' = trace \o <<Ev("emit:done", PostEvent), Ev("log", "Bootstrap completed."),
                         Ev("return", "lando")>>
  /\ em' = NoEmit
  /\ UNCHANGED <<n, result, calls, options, config, srcs, lando, thrown, hlog,
                 plist, largs, loads>>

Next ==
  \/ \E o \in CallOptions : Call(o)
  \/ Merge81
  \/ LoadFiles
  \/ LoadFilesThrow
  \/ LoadEnvs
  \/ LoadEnvsThrow
  \/ AttachId
  \/ Summon
  \/ SummonThrow
  \/ EmitPre
  \/ HandlerTick
  \/ HandlerDone
  \/ HandlerFail
  \/ ThenPlugins
  \/ \E i \in 1..Len(loads) : LoadDone(i)
  \/ \E i \in 1..Len(loads) : LoadFail(i)
  \/ ThenPost
  \/ ThenReturn

Spec == Init /\ [][Next]_vars

\* every step of the execution other than a new call of module.exports
Steps ==
  \/ Merge81
  \/ LoadFiles
  \/ LoadFilesThrow
  \/ LoadEnvs
  \/ LoadEnvsThrow
  \/ AttachId
  \/ Summon
  \/ SummonThrow
  \/ EmitPre
  \/ HandlerTick
  \/ HandlerDone
  \/ HandlerFail
  \/ ThenPlugins
  \/ \E i \in 1..Len(loads) : LoadDone(i)
  \/ \E i \in 1..Len(loads) : LoadFail(i)
  \/ ThenPost
  \/ ThenReturn

\* the synchronous statements run to the end, every collaborator invocation
\* completes (with a result or an error) and the event loop runs every
\* callback that has become ready
FairSpec == Init /\ [][Next]_vars /\ WF_vars(Steps)

\* ------------------------------------------------------------ observations
EvIdx(ev) == {i \in 1..Len(trace) : trace[i].ev = ev}
EvWhoIdx(ev, w) == {i \in 1..Len(trace) : trace[i].ev = ev /\ trace[i].who = w}
Count(ev) == Cardinality(EvIdx(ev))
FailIdx == {i \in 1..Len(trace) : trace[i].err # NoErr}
FirstFail == CHOOSE i \in FailIdx : \A j \in FailIdx : i <= j

\* what a call of module.exports ends up with
Outcome(c) ==
  CASE c.ret = "running" -> [kind |-> "running", error |-> NoErr]
    [] c.ret = "throw" -> [kind |-> "failure", error |-> thrown]
    [] c.ret = "undefined" -> [kind |-> "undefined", error |-> NoErr]
    [] c.ret = "promise" ->
         CASE promise.state = "fulfilled" -> [kind |-> "instance", error |-> NoErr]
           [] promise.state = "rejected" -> [kind |-> "failure", error |-> promise.error]
           [] OTHER -> [kind |-> "pending", error |-> NoErr]

\* no step of the sequence has run more than once
StepsAtMostOnce ==
  /\ \A ev \in {"merge", "loadFiles", "loadEnvs", "id", "summon", "log", "return"} :
       Count(ev) <= 1
  /\ \A e \in {"pre-bootstrap", "post-bootstrap"} : Cardinality(EvWhoIdx("emit", e)) <= 1
  /\ \A i \in 1..Len(plist) : Cardinality(EvWhoIdx("load", plist[i])) = 1
  /\ Count("load") = Len(plist)

\* in a completed run every step the config calls for has run exactly once
StepsExactlyOnce ==
  /\ \A ev \in {"merge", "id", "summon", "log", "return"} : Count(ev) = 1
  /\ \A e \in {"pre-bootstrap", "post-bootstrap"} : Cardinality(EvWhoIdx("emit", e)) = 1
  /\ Count("load") = Len(PluginsOf(config))
  /\ Count("loadFiles") = IF isEmptySources(merge(srcs.defaults, srcs.options)) THEN 0 ELSE 1
  /\ Count("loadEnvs") = IF Has(merge(merge(srcs.defaults, srcs.options), srcs.files), "envPrefix")
                         THEN 1 ELSE 0

\* ------------------------------------------------------------------ claims
\* C1: run-once idempotence. However many calls are made, with whatever
\* options, no step of the sequence runs more than once, and in a run that
\* reaches Ready every step has run exactly once and every call made has
\* yielded the one Instance (the promise that is fulfilled with it).
C1_RunOnce ==
  /\ StepsAtMostOnce
  /\ pc = "ready" =>
       /\ StepsExactlyOnce
       /\ \A i \in 1..Len(calls) : Outcome(calls[i]).kind = "instance"

\* C2: memoized failure. Once the first invocation has failed, at whatever
\* stage, a later invocation gets that same failure and no step runs again.
C2_MemoizedFailure ==
  pc = "failed" =>
    /\ StepsAtMostOnce
    /\ \A i \in 2..Len(calls) :
         calls[i].at = "settled" => Outcome(calls[i]) = Outcome(calls[1])

\* C3: a call made after the first call has begun and before its outcome is
\* produced (re-entrantly during the synchronous part, or while the promise is
\* pending) starts no second run and ends up with the first caller's outcome.
C3_SharedExecution ==
  /\ StepsAtMostOnce
  /\ \A i \in 2..Len(calls) :
       (calls[i].at \in {"sync", "pending"} /\ calls[1].ret # "running")
         => Outcome(calls[i]) = Outcome(calls[1])

\* C4: sequential plugin registration. A plugin's load has begun only if the
\* load of every earlier entry of the list has completed, so no two loads are
\* in progress together.
C4_SequentialLoads ==
  /\ \A i, j \in 1..Len(loads) : i < j => loads[i] = "done"
  /\ Cardinality({i \in 1..Len(loads) : loads[i] = "inflight"}) <= 1

\* the place of a step in the sequence of section 4.6
Rank(e) ==
  CASE e.ev = "merge" -> 1
    [] e.ev = "loadFiles" -> 2
    [] e.ev = "loadEnvs" -> 3
    [] e.ev = "id" -> 4
    [] e.ev = "summon" -> 5
    [] e.ev \in {"emit", "emit:done", "emit:fail"} /\ e.who = "pre-bootstrap" ->
         IF e.ev = "emit" THEN 6 ELSE 7
    [] e.ev = "load" -> 8
    [] e.ev \in {"load:done", "load:fail"} -> 9
    [] e.ev \in {"emit", "emit:done", "emit:fail"} /\ e.who = "post-bootstrap" ->
         IF e.ev = "emit" THEN 10 ELSE 11
    [] e.ev = "log" -> 12
    [] e.ev = "return" -> 13

Ok(ev) == \E i \in EvIdx(ev) : trace[i].err = NoErr

\* C5: strict step ordering. The steps run in the order merge, id, instance,
\* pre-bootstrap emitted and completed, plugin loads, post-bootstrap emitted
\* and completed, return: a later step has run only if the earlier one has
\* completed. No load begins before pre-bootstrap has completed, post-bootstrap
\* is emitted only after every load has completed, and a caller holds the
\* Instance only after post-bootstrap has completed.
C5_StepOrder ==
  /\ \A i, j \in 1..Len(trace) : i < j => Rank(trace[i]) <= Rank(trace[j])
  /\ Count("id") > 0 => Ok("merge")
  /\ Count("summon") > 0 => Ok("id")
  /\ EvWhoIdx("emit", "pre-bootstrap") # {} => Ok("summon")
  /\ Count("load") > 0 => EvWhoIdx("emit:done", "pre-bootstrap") # {}
  /\ EvWhoIdx("emit", "post-bootstrap") # {} =>
       /\ EvWhoIdx("emit:done", "pre-bootstrap") # {}
       /\ \A i \in 1..Len(loads) : loads[i] = "done"
       /\ Count("load:done") = Len(PluginsOf(config))
  /\ Count("return") > 0 => EvWhoIdx("emit:done", "post-bootstrap") # {}
  /\ (\E i \in 1..Len(calls) : Outcome(calls[i]).kind = "instance") => Count("return") > 0

C5_Witness ==
  /\ pc = "ready"
  /\ Len(plist) = MaxPlugins
  /\ Count("loadFiles") = 1
  /\ Count("loadEnvs") = 1
  /\ Outcome(calls[1]).kind = "instance"

SyncSteps == {"merge", "loadFiles", "loadEnvs", "id", "summon"}

StageOf(e) ==
  CASE e.type \in {"ConfigLoadError", "EnvParseError"} -> "config"
    [] e.type = "IdentityError" -> "identity"
    [] e.type = "InstanceBuildError" -> "instance"
    [] e.type = "EventHandlerError" -> e.event
    [] e.type \in {"PluginInitError", "PluginNotFoundError"} -> "plugin"
    [] OTHER -> "none"

\* C7: staged failure reporting. Whatever a call of bootstrap has delivered is
\* the Ready Instance or a failure naming its stage and carrying its cause.
C7_StagedOutcome ==
  \A i \in 1..Len(calls) :
    LET o == Outcome(calls[i]) IN
    \/ o.kind \in {"running", "pending"}
    \/ o.kind = "instance" /\ pc = "ready"
    \/ o.kind = "failure" /\ StageOf(o.error) # "none" /\ o.error.who # "none"

\* the value of key k in the highest source that defines it
ByPrecedence(k) ==
  IF Has(srcs.env, k) THEN srcs.env[k]
  ELSE IF Has(srcs.files, k) THEN srcs.files[k]
  ELSE IF Has(srcs.options, k) THEN srcs.options[k]
  ELSE srcs.defaults[k]

SrcKeys == DOMAIN srcs.defaults \cup DOMAIN srcs.options \cup DOMAIN srcs.files
             \cup DOMAIN srcs.env

\* C8: merge precedence. The config handed to the instance factory defines,
\* besides id, exactly the keys some source defines, each with the value of
\* the highest source defining it in the order defaults < options < files < env.
C8_MergePrecedence ==
  lando.built =>
    /\ DOMAIN lando.config = SrcKeys \cup {"id"}
    /\ \A k \in SrcKeys \ {"id"} : lando.config[k] = ByPrecedence(k)

C8_Witness ==
  /\ lando.built
  /\ \A s \in {"defaults", "options", "files", "env"} : Has(srcs[s], "a")
  /\ lando.config["a"] = 4
  /\ lando.config["userConfRoot"] = "/r1"
  /\ ~Has(srcs.options, "userConfRoot")

LoadFilesFailed == \E i \in EvIdx("loadFiles") : trace[i].err # NoErr

\* C9: missing config file. When loadFiles fails, bootstrap fails with that
\* error, and the instance factory has not been invoked, no lifecycle event
\* has been emitted and no plugin has been loaded.
C9_MissingConfigFile ==
  LoadFilesFailed =>
    /\ pc = "failed"
    /\ Outcome(calls[1]).kind = "failure"
    /\ Outcome(calls[1]).error.type = "ConfigLoadError"
    /\ ~lando.built
    /\ Count("summon") = 0
    /\ Count("emit") = 0
    /\ Count("load") = 0

C9_Witness ==
  /\ LoadFilesFailed
  /\ thrown.type = "ConfigLoadError"
  /\ Len(calls) > 1

IsPreHandler(h) == h \in {"H1", "H2", "H3"}
PreLog == SelectSeq(hlog, IsPreHandler)
IsPrefix(s, t) == Len(s) <= Len(t) /\ \A i \in 1..Len(s) : s[i] = t[i]

\* the first emit of the chain has run all its handlers
FirstEmitCompleted ==
  \/ pc \in {"plugins", "post", "ready"}
  \/ pc = "pre" /\ em.idx > 3

H2Failed ==
  \E i \in EvIdx("emit:fail") : trace[i].who = "pre-bootstrap" /\ trace[i].err.who = "H2"

PreCompleted == EvWhoIdx("emit:done", "pre-bootstrap") # {}

\* C12: the plugin list is read after pre-bootstrap. Once the pre-bootstrap
\* handlers have completed, the loader has been called exactly once for each
\* entry of config.plugins as the handlers left it, in that order (not at all
\* when the list is absent), each time with config.pluginDirs in its
\* configured order and the Instance.
C12_PluginListRead ==
  PreCompleted =>
    /\ plist = (IF Has(config, "plugins") THEN config["plugins"] ELSE <<>>)
    /\ Len(largs) = Len(plist)
    /\ \A i \in 1..Len(plist) :
         /\ largs[i] = [plugin |-> plist[i], dirs |-> srcs.options["pluginDirs"],
                        inst |-> "lando"]
         /\ Cardinality(EvWhoIdx("load", plist[i])) = 1
    /\ Count("load") = Len(plist)
    /\ \A i, j \in EvIdx("load") :
         i < j => \E k, l \in 1..Len(plist) :
                    k < l /\ trace[i].who = plist[k] /\ trace[j].who = plist[l]

C12_Witness ==
  /\ pc = "ready"
  /\ Has(srcs.options, "plugins")
  /\ Len(plist) = MaxPlugins
  /\ plist = Reverse(srcs.options["plugins"])
  /\ plist # srcs.options["plugins"]

\* C13: lifecycle payloads and emission count. In a run that reaches Ready
\* each event has been emitted exactly once; the pre-bootstrap handlers were
\* handed the Instance's config, so what each of them set is in the config of
\* the Instance returned; the post-bootstrap handlers were handed the
\* Instance, so what each of them attached is on the Instance returned.
C13_Payloads ==
  pc = "ready" =>
    /\ Cardinality(EvWhoIdx("emit", "pre-bootstrap")) = 1
    /\ Cardinality(EvWhoIdx("emit", "post-bootstrap")) = 1
    /\ \A h \in {"H1", "H2", "H3"} : Has(config, h) /\ h \notin lando.caps
    /\ \A i \in 1..Len(lando.post) :
         lando.post[i] \in lando.caps /\ ~Has(config, lando.post[i])

C13_Witness ==
  /\ pc = "ready"
  /\ "G1" \in lando.caps
  /\ Has(config, "H3")
  /\ Len(lando.post) > 1
  /\ Outcome(calls[1]).kind = "instance"

FirstSources ==
  IF Has(srcs.options, "configSources") THEN srcs.options["configSources"]
  ELSE IF Has(srcs.defaults, "configSources") THEN srcs.defaults["configSources"]
  ELSE <<>>

PrefixConfigured ==
  Has(srcs.defaults, "envPrefix") \/ Has(srcs.options, "envPrefix")
    \/ Has(srcs.files, "envPrefix")

\* C14: conditional config sources. Once line 94 is reached, loadFiles has
\* been invoked once if configSources of defaults merged with options is
\* non-empty and not at all otherwise (whatever files or env supply as
\* configSources); loadEnvs has been invoked once if defaults, options or the
\* files define envPrefix and not at all otherwise. With neither configured
\* the config handed to the factory is defaults merged with options, plus id.
C14_ConditionalSources ==
  /\ Count("loadFiles") <= 1
  /\ Count("loadEnvs") <= 1
  /\ Count("id") > 0 =>
       /\ Count("loadFiles") = (IF Len(FirstSources) > 0 THEN 1 ELSE 0)
       /\ Count("loadEnvs") = (IF PrefixConfigured THEN 1 ELSE 0)
  /\ (lando.built /\ Len(FirstSources) = 0 /\ ~PrefixConfigured) =>
       /\ DOMAIN lando.config = DOMAIN srcs.defaults \cup DOMAIN srcs.options \cup {"id"}
       /\ \A k \in DOMAIN lando.config \ {"id"} :
            lando.config[k] = (IF Has(srcs.options, k) THEN srcs.options[k]
                               ELSE srcs.defaults[k])

C14_Witness ==
  /\ lando.built
  /\ ~Has(srcs.defaults, "envPrefix")
  /\ ~Has(srcs.options, "envPrefix")
  /\ Has(srcs.files, "envPrefix")
  /\ Count("loadEnvs") = 1
  /\ Has(srcs.env, "configSources")
  /\ Count("loadFiles") = 1

ResolvedRoot ==
  IF Has(srcs.env, "userConfRoot") THEN srcs.env["userConfRoot"]
  ELSE IF Has(srcs.files, "userConfRoot") THEN srcs.files["userConfRoot"]
  ELSE IF Has(srcs.options, "userConfRoot") THEN srcs.options["userConfRoot"]
  ELSE srcs.defaults["userConfRoot"]

\* C15: identity attachment. The id of the config handed to the factory is
\* the digest of userConfRoot as resolved over defaults, options, files and
\* env, whatever id a source supplied; it depends on nothing else, so equal
\* roots give equal ids.
C15_Identity ==
  lando.built =>
    /\ Has(lando.config, "id")
    /\ ResolvedRoot = "/r1" => lando.config["id"] = "sha1:r1"
    /\ ResolvedRoot = "/r2" => lando.config["id"] = "sha1:r2"
    /\ lando.config["id"] \in {"sha1:r1", "sha1:r2"}
    /\ lando.config["userConfRoot"] = ResolvedRoot

C15_Witness ==
  /\ lando.built
  /\ Has(srcs.env, "id")
  /\ Has(srcs.env, "userConfRoot")
  /\ srcs.env["userConfRoot"] = "/r2"
  /\ Has(srcs.defaults, "userConfRoot")
  /\ srcs.defaults["userConfRoot"] = "/r1"
  /\ lando.config["id"] = "sha1:r2"

PluginPreNames == {"P1:pre", "P2:pre", "P3:pre", "P4:pre"}
PluginPostNames == {"P1:post", "P2:post", "P3:post", "P4:post"}
PostNameOf(p) ==
  CASE p = "P1" -> "P1:post" [] p = "P2" -> "P2:post" [] p = "P3" -> "P3:post"
    [] OTHER -> "P4:post"

Terminal == {"ready", "failed"}

OutcomeKept ==
  pc \in Terminal => (pc' = pc /\ promise' = promise /\ thrown' = thrown)

\* C17: completion. Given that every collaborator invocation completes, a
\* bootstrap that was called reaches a terminal outcome; the outcome is Ready
\* with the promise fulfilled or Failed with an error (thrown or rejected),
\* never both; and once reached it never changes.
C17_Completion ==
  /\ (pc # "idle") ~> (pc \in Terminal)
  /\ [](pc = "ready" => promise.state = "fulfilled" /\ thrown = NoErr)
  /\ [](pc = "failed" => (promise.state = "rejected") # (thrown # NoErr))
  /\ [](pc \notin Terminal => promise.state \in {"none", "pending"} /\ thrown = NoErr)
  /\ [][OutcomeKept]_vars

C17_Witness ==
  /\ pc = "ready"
  /\ Len(calls) = MaxCalls
  /\ calls[MaxCalls].at = "settled"
  /\ plist = <<>>

====
